---- MODULE Spec2Model ----
(***************************************************************************)
(* pyperdeck: the read context of Hyperdeck (src/pyperdeck/__init__.py),   *)
(* its framer, router and handlers, and the device state they mirror.      *)
(*                                                                         *)
(* The inbound stream is a sequence of CRLF-terminated lines.  A line is a *)
(* record: a status line (code, token, trailing colon or not), a body      *)
(* field (the list field.split(': ') yields), a blank line, or junk.       *)
(* Field names and values are strings; int(), str() and the slices of a    *)
(* clip entry are tables over the values the device sends in this model.   *)
(*                                                                         *)
(* Beside the reader: __init__ assigning its defaults after it has started *)
(* the thread, a caller of the API, two contexts inside _send at once, a    *)
(* device that answers the startup sequence the same way on every          *)
(* connection, and the arithmetic of Timecode (src/pyperdeck/timecode.py)  *)
(* on strings as sequences of characters.                                  *)
(***************************************************************************)
EXTENDS Integers, Sequences, FiniteSets, TLC

VARIABLES
    pc,         \* position of the reader thread: read, sleep, connect, ping, dead
    conn,       \* identity of self.connection (1 = the one made by __init__)
    linkUp,     \* the peer still holds the current connection open
    inbuf,      \* lines received on the current connection and not yet read
    dev,        \* the Hyperdeck object's state fields
    out,        \* commands written to the socket by the last reader step
    wconn,      \* the connection the last reader step wrote to
    last,       \* the unit the last read step handed to the router, and its outcome
    logged,     \* most severe log record of the last reader step
    waited,     \* time slept since the last failure
    pingOwed,   \* the device has a ping to answer on the current connection
    startups,   \* complete startup sequences written on the current connection
    units,      \* the units the device sends in this run
    ctor,       \* assignments of __init__ done since it started the reader thread
    written,    \* fields the reader stored a value in while __init__ was running
    wire,       \* bytes the socket has taken, each with the write it belongs to
    sending,    \* per writing context: bytes of its write not yet taken, writes begun
    call,       \* the last call of the API: its arguments and what came of it
    script,     \* answers to the startup sequence the device has yet to send
    arith       \* a Timecode computation: its operands, how far it is, its result

\* what the reader thread, its device and __init__ change
readerVars == <<pc, conn, linkUp, inbuf, dev, out, wconn, last, logged,
                waited, pingOwed, startups, units, ctor, written>>

\* what the reader thread and its device leave alone
aside == <<wire, sending, call, script, arith>>

vars == <<pc, conn, linkUp, inbuf, dev, out, wconn, last, logged,
          waited, pingOwed, startups, units, ctor, written, aside>>

----------------------------------------------------------------------------
(* Bounds *)

MaxConn == 2        \* connections made in a run (the first included)
MaxBuf == 5         \* lines the inbound buffer holds
MaxWriteOK == 1     \* writes that may still succeed on a dropped link
MaxDuration == 40   \* Timeline.duration the model follows
MaxCommands == 1    \* commands a context writes in a run
MaxCount == 2       \* largest clip count a caller passes
MaxAddend == 26     \* largest of the small frame counts added or subtracted

(* Program constants *)

ReconnectDelay == 3

NoFail == 0 - 1     \* a socket that accepts every write

----------------------------------------------------------------------------
(* Python values *)

None == "None"      \* None in a str-typed or bool-typed field
NoneInt == 0 - 1    \* None in an int-typed field
PyBool(b) == IF b THEN "True" ELSE "False"

\* int(value): defined on the decimal literals, ValueError elsewhere
IntOf == [s \in {"0", "1", "2", "3", "100", "250"} |->
            CASE s = "0" -> 0 [] s = "1" -> 1 [] s = "2" -> 2 [] s = "3" -> 3
              [] s = "100" -> 100 [] s = "250" -> 250]
IsInt(s) == s \in DOMAIN IntOf

\* {} as the slot map
EmptyDict == [k \in {} |-> None]

\* str(n) for the slot numbers
StrOf(n) == CHOOSE s \in DOMAIN IntOf : IntOf[s] = n

----------------------------------------------------------------------------
(* timecode.py *)

\* the framerate substrings parse_framerate looks for, per video format
FormatTokens ==
    [f \in {"NTSC", "PAL", "720p50", "720p60", "1080i5994", "1080p23976",
            "1080p24", "1080p25", "1080p2997", "1080p30"} |->
        CASE f = "720p50" -> {"50"}
          [] f = "720p60" -> {"60"}
          [] f = "1080i5994" -> {"5994"}
          [] f = "1080p23976" -> {"23976"}
          [] f = "1080p24" -> {"24"}
          [] f = "1080p25" -> {"25"}
          [] f = "1080p2997" -> {"2997"}
          [] f = "1080p30" -> {"30"}
          [] OTHER -> {}]

In(tok, video_format) ==
    video_format \in DOMAIN FormatTokens /\ tok \in FormatTokens[video_format]

parse_framerate(video_format) ==
    IF In("50", video_format) THEN 50
    ELSE IF In("5994", video_format) THEN 60
    ELSE IF In("60", video_format) THEN 60
    ELSE IF In("23976", video_format) THEN 24
    ELSE IF In("24", video_format) THEN 24
    ELSE IF In("25", video_format) THEN 25
    ELSE IF In("2997", video_format) THEN 30
    ELSE IF In("30", video_format) THEN 30
    ELSE NoneInt

\* Timecode.__init__ on an 11-character string: the fields its slices parse to
TimecodeOf ==
    [t \in {"00:00:00:00", "00:00:00:10", "00:00:01:00", "00:00:02;05"} |->
        CASE t = "00:00:00:00" ->
                [hours |-> 0, minutes |-> 0, seconds |-> 0, frames |-> 0, dropcode |-> FALSE]
          [] t = "00:00:00:10" ->
                [hours |-> 0, minutes |-> 0, seconds |-> 0, frames |-> 10, dropcode |-> FALSE]
          [] t = "00:00:01:00" ->
                [hours |-> 0, minutes |-> 0, seconds |-> 1, frames |-> 0, dropcode |-> FALSE]
          [] t = "00:00:02;05" ->
                [hours |-> 0, minutes |-> 0, seconds |-> 2, frames |-> 5, dropcode |-> TRUE]]

\* Timecode._calc_frame_count; multiplying by a framerate of None raises
CalcFrameCount(tc, framerate) ==
    (tc.hours * 60 * 60 * framerate) + (tc.minutes * 60 * framerate)
        + (tc.seconds * framerate) + tc.frames

\* Timecode(timecode, framerate).frame_count, or the failure of the constructor
FrameCountOf(timecode, framerate) ==
    IF timecode \notin DOMAIN TimecodeOf \/ framerate = NoneInt
    THEN [err |-> TRUE, n |-> 0]
    ELSE [err |-> FALSE, n |-> CalcFrameCount(TimecodeOf[timecode], framerate)]

----------------------------------------------------------------------------
(* timecode.py: Timecode and its arithmetic, on strings as the sequences    *)
(* of their characters                                                     *)

DigitChars == <<"0", "1", "2", "3", "4", "5", "6", "7", "8", "9">>

\* str(n) for n >= 0
RECURSIVE Digits(_)
Digits(n) ==
    IF n < 10 THEN <<DigitChars[n + 1]>>
    ELSE Digits(n \div 10) \o <<DigitChars[(n % 10) + 1]>>

\* f'{n:02}': at least two characters, the sign among them
Pad2(n) ==
    IF n < 0 THEN <<"-">> \o Digits(0 - n)
    ELSE IF n < 10 THEN <<"0">> \o Digits(n)
    ELSE Digits(n)

format_timecode(hours, minutes, seconds, frames, dropcode) ==
    LET frame_seperator == IF dropcode THEN ";" ELSE ":"
    IN Pad2(hours) \o <<":">> \o Pad2(minutes) \o <<":">> \o Pad2(seconds)
          \o <<frame_seperator>> \o Pad2(frames)

IsDigit(c) == \E d \in 0..9 : DigitChars[d + 1] = c

RECURSIVE DigitsValue(_)
DigitsValue(cs) ==
    IF cs = <<>> THEN 0
    ELSE 10 * DigitsValue(SubSeq(cs, 1, Len(cs) - 1))
            + (CHOOSE d \in 0..9 : DigitChars[d + 1] = cs[Len(cs)])

\* int(s) on the characters of a timecode: digits after an optional minus
\* sign, ValueError on anything else
ParseInt(cs) ==
    LET neg == cs # <<>> /\ cs[1] = "-"
        ds == IF neg THEN Tail(cs) ELSE cs
    IN IF ds = <<>> \/ \E i \in 1..Len(ds) : ~IsDigit(ds[i])
       THEN [err |-> TRUE, v |-> 0]
       ELSE [err |-> FALSE, v |-> IF neg THEN 0 - DigitsValue(ds) ELSE DigitsValue(ds)]

\* a constructor or an operation that raised
NoTimecode ==
    [err |-> TRUE, timecode |-> <<>>, framerate |-> 0, dropcode |-> FALSE,
     hours |-> 0, minutes |-> 0, seconds |-> 0, frames |-> 0, frame_count |-> 0]

\* Timecode.__init__: the length assertion, the four slices, the frame count
Timecode(timecode, framerate) ==
    LET hours == ParseInt(SubSeq(timecode, 1, 2))
        minutes == ParseInt(SubSeq(timecode, 4, 5))
        seconds == ParseInt(SubSeq(timecode, 7, 8))
        frames == ParseInt(SubSeq(timecode, 10, Len(timecode)))
        fields == [hours |-> hours.v, minutes |-> minutes.v, seconds |-> seconds.v,
                   frames |-> frames.v]
    IN IF Len(timecode) # 11 THEN NoTimecode
       ELSE IF hours.err \/ minutes.err \/ seconds.err \/ frames.err THEN NoTimecode
       ELSE [err |-> FALSE, timecode |-> timecode, framerate |-> framerate,
             dropcode |-> \E i \in 1..Len(timecode) : timecode[i] = ";",
             hours |-> hours.v, minutes |-> minutes.v, seconds |-> seconds.v,
             frames |-> frames.v, frame_count |-> CalcFrameCount(fields, framerate)]

\* the right operand of + and -: a Timecode, an int or a str
TimecodeOperand(t) == [kind |-> "Timecode", t |-> t, n |-> 0, s |-> <<>>]
IntOperand(n) == [kind |-> "int", t |-> NoTimecode, n |-> n, s |-> <<>>]
StrOperand(s) == [kind |-> "str", t |-> NoTimecode, n |-> 0, s |-> s]

\* the carries that end __add__ and __sub__, and the Timecode built from the
\* rendering of their result
Carry(self, hours, minutes, seconds, frames) ==
    LET seconds1 == seconds + (frames \div self.framerate)
        frames1 == frames % self.framerate
        minutes1 == minutes + (seconds1 \div 60)
        seconds2 == seconds1 % 60
        hours1 == hours + (minutes1 \div 60)
        minutes2 == minutes1 % 60
    IN Timecode(format_timecode(hours1, minutes2, seconds2, frames1, self.dropcode),
                self.framerate)

__add__(self, other) ==
    CASE other.kind = "Timecode" ->
            Carry(self, self.hours + other.t.hours, self.minutes + other.t.minutes,
                  self.seconds + other.t.seconds, self.frames + other.t.frames)
      [] other.kind = "int" ->
            Carry(self, self.hours, self.minutes, self.seconds, self.frames + other.n)
      [] other.kind = "str" ->
            LET o == Timecode(other.s, self.framerate)
            IN IF o.err THEN NoTimecode
               ELSE Carry(self, self.hours + o.hours, self.minutes + o.minutes,
                          self.seconds + o.seconds, self.frames + o.frames)

\* while low < 0: high -= 1; low += base
RECURSIVE Borrow(_, _, _)
Borrow(high, low, base) ==
    IF low < 0 THEN Borrow(high - 1, low + base, base) ELSE <<high, low>>

\* a clamp that resets the hours and leaves the other fields
ClampHoursOnly(f) == IF f.hours < 0 THEN [f EXCEPT !.hours = 0] ELSE f

\* if hours < 0: the four fields become 0
Clamp(f) ==
    IF f.hours < 0 THEN [hours |-> 0, minutes |-> 0, seconds |-> 0, frames |-> 0]
    ELSE f

\* the three borrow loops, the clamp and the carries of __sub__
Borrows(self, hours, minutes, seconds, frames) ==
    LET sf == Borrow(seconds, frames, self.framerate)
        ms == Borrow(minutes, sf[1], 60)
        hm == Borrow(hours, ms[1], 60)
        c == Clamp([hours |-> hm[1], minutes |-> hm[2], seconds |-> ms[2],
                    frames |-> sf[2]])
    IN Carry(self, c.hours, c.minutes, c.seconds, c.frames)

__sub__(self, other) ==
    CASE other.kind = "Timecode" ->
            Borrows(self, self.hours - other.t.hours, self.minutes - other.t.minutes,
                    self.seconds - other.t.seconds, self.frames - other.t.frames)
      [] other.kind = "int" ->
            Borrows(self, self.hours, self.minutes, self.seconds, self.frames - other.n)
      [] other.kind = "str" ->
            LET o == Timecode(other.s, self.framerate)
            IN IF o.err THEN NoTimecode
               ELSE Borrows(self, self.hours - o.hours, self.minutes - o.minutes,
                            self.seconds - o.seconds, self.frames - o.frames)

\* no computation
NoTc == [phase |-> "none", t |-> NoTimecode, x |-> IntOperand(0), res |-> NoTimecode]

----------------------------------------------------------------------------
(* _internals.py: the records *)

Slot(id) ==
    [id |-> id, status |-> None, volume_name |-> None, recording_time |-> 0,
     video_format |-> None, framerate |-> 0, blocked |-> "False", clips |-> <<>>]

Timeline == [clips |-> <<>>, framerate |-> 0, duration |-> 0]

\* the slices TimelineClip.__init__ takes of an entry
TimelineEntry ==
    [e \in {"a.mov 00:00:00:00 00:00:00:10", "b.mov 00:00:00:10 00:00:01:00",
            "c.mov 00:00:00:00 00:00:02;05"} |->
        CASE e = "a.mov 00:00:00:00 00:00:00:10" ->
                [name |-> "a.mov", start_timecode |-> "00:00:00:00", duration |-> "00:00:00:10"]
          [] e = "b.mov 00:00:00:10 00:00:01:00" ->
                [name |-> "b.mov", start_timecode |-> "00:00:00:10", duration |-> "00:00:01:00"]
          [] e = "c.mov 00:00:00:00 00:00:02;05" ->
                [name |-> "c.mov", start_timecode |-> "00:00:00:00", duration |-> "00:00:02;05"]]

\* entry[-11:], entry[-23:-12], entry[:-24]; an entry off the table is too
\* short to leave an 11-character duration
TimelineClip(clip_id, entry, framerate) ==
    LET known == entry \in DOMAIN TimelineEntry
        dur == IF known THEN TimelineEntry[entry].duration ELSE entry
        fc == FrameCountOf(dur, framerate)
    IN [err |-> fc.err,
        clip |-> [original |-> entry, clip_id |-> clip_id,
                  name |-> IF known THEN TimelineEntry[entry].name ELSE "",
                  start_timecode |-> IF known THEN TimelineEntry[entry].start_timecode ELSE "",
                  duration |-> dur, duration_frames |-> fc.n]]

\* the three rsplit(' ', 1) of DiskClip.__init__
DiskEntry ==
    [e \in {"a.mov QuickTimeProRes 1080p25 00:00:00:10"} |->
        [name |-> "a.mov", file_format |-> "QuickTimeProRes",
         video_format |-> "1080p25", duration |-> "00:00:00:10"]]

DiskClip(clip_id, entry, framerate) ==
    LET known == entry \in DOMAIN DiskEntry
        dur == IF known THEN DiskEntry[entry].duration ELSE entry
        fc == FrameCountOf(dur, framerate)
    IN [err |-> fc.err \/ ~known,
        clip |-> [original |-> entry, clip_id |-> clip_id,
                  name |-> IF known THEN DiskEntry[entry].name ELSE "",
                  file_format |-> IF known THEN DiskEntry[entry].file_format ELSE "",
                  video_format |-> IF known THEN DiskEntry[entry].video_format ELSE "",
                  duration |-> dur, duration_frames |-> fc.n]]

----------------------------------------------------------------------------
(* Hyperdeck.__init__: the state fields and their defaults *)

InitDev ==
    [model |-> None, protocol_version |-> None, software_version |-> None,
     unique_id |-> None, slot_count |-> 0,
     slots |-> EmptyDict, remaining_time |-> 0,
     status |-> None, speed |-> 0, slot_id |-> 0, active_slot |-> 0,
     clip_id |-> 0, single_clip |-> None, display_timecode |-> None,
     timecode |-> None, video_format |-> None, framerate |-> 0, loop |-> None,
     timeline_playhead |-> 0, input_video_format |-> None,
     dynamic_range |-> None, stop_mode |-> None,
     timeline_in |-> 0, timeline_out |-> 0,
     audio_input |-> None, audio_mapping |-> 0, video_input |-> None,
     file_format |-> None, audio_codec |-> None, timecode_input |-> None,
     timecode_output |-> None, timecode_preference |-> None,
     timecode_preset |-> None, audio_input_channels |-> 0,
     record_trigger |-> None, record_prefix |-> None,
     append_timestamp |-> "False", genlock_input_resync |-> "False",
     timeline |-> Timeline]

\* the assignments of __init__ after the reader thread has been started, in
\* the order of the source
CtorOrder ==
    <<"model", "protocol_version", "software_version", "unique_id", "slot_count",
      "slots", "remaining_time",
      "status", "speed", "slot_id", "active_slot", "clip_id", "single_clip",
      "display_timecode", "timecode", "video_format", "framerate", "loop",
      "timeline_playhead", "input_video_format", "dynamic_range", "stop_mode",
      "timeline_in", "timeline_out",
      "audio_input", "audio_mapping", "video_input", "file_format", "audio_codec",
      "timecode_input", "timecode_output", "timecode_preference", "timecode_preset",
      "audio_input_channels", "record_trigger", "record_prefix", "append_timestamp",
      "genlock_input_resync",
      "timeline">>

CtorDone == Len(CtorOrder)

\* the state fields of an object whose __init__ has returned
AllAttrs == {CtorOrder[i] : i \in 1..CtorDone}

\* the state fields the object has: those __init__ has assigned so far and
\* those the reader has stored a value in
Attrs ==
    IF ctor = CtorDone THEN AllAttrs
    ELSE {CtorOrder[i] : i \in 1..ctor} \cup written

----------------------------------------------------------------------------
(* The wire *)

\* lines of the inbound stream, each ended by CRLF
St(code, tok) == [k |-> "status", code |-> code, tok |-> tok, colon |-> FALSE, f |-> <<>>]
Hd(code, tok) == [k |-> "status", code |-> code, tok |-> tok, colon |-> TRUE, f |-> <<>>]
Fld(parts) == [k |-> "field", code |-> 0, tok |-> "", colon |-> FALSE, f |-> parts]
Blank == [k |-> "blank", code |-> 0, tok |-> "", colon |-> FALSE, f |-> <<>>]
Junk == [k |-> "junk", code |-> 0, tok |-> "", colon |-> FALSE, f |-> <<>>]

\* a block: status line ending in a colon, body lines, blank line
Block(code, tok, body) == <<Hd(code, tok)>> \o body \o <<Blank>>

\* a handler's progress: the state so far, the commands it has written, whether
\* it has raised, the writes the socket still accepts, the level it logged at,
\* and the state fields the object had when the handler began
Begin(d, w) ==
    [d |-> d, out |-> <<>>, err |-> FALSE, w |-> w, log |-> "debug", have |-> Attrs]
Raise(r) == [r EXCEPT !.err = TRUE]

\* Hyperdeck._send: connection.write raises on a socket that has gone
_send(r, command) ==
    IF r.err THEN r
    ELSE IF r.w = 0 THEN Raise(r)
    ELSE [r EXCEPT !.out = Append(@, command), !.w = IF @ = NoFail THEN @ ELSE @ - 1]

_notify(r, prop, enable) ==
    LET value == IF enable THEN "true" ELSE "false"
    IN _send(r, <<"notify: ", prop, ": ", value>>)

\* _startup with 'clips get' asked for before 'playrange'
_startup_reordered(r) ==
    LET r1 == _send(r, <<"device info">>)
        r2 == _send(r1, <<"configuration">>)
        r3 == _send(r2, <<"transport info">>)
        r4 == _send(r3, <<"clips get">>)
        r5 == _send(r4, <<"playrange">>)
        r6 == _send(r5, <<"play option">>)
        r7 == _notify(r6, "transport", TRUE)
        r8 == _notify(r7, "display timecode", TRUE)
        r9 == _notify(r8, "timeline position", TRUE)
        r10 == _notify(r9, "playrange", TRUE)
        r11 == _notify(r10, "slot", TRUE)
    IN _notify(r11, "configuration", TRUE)

_startup(r) ==
    LET r1 == _send(r, <<"device info">>)
        r2 == _send(r1, <<"configuration">>)
        r3 == _send(r2, <<"transport info">>)
        r4 == _send(r3, <<"playrange">>)
        r5 == _send(r4, <<"clips get">>)
        r6 == _send(r5, <<"play option">>)
        r7 == _notify(r6, "transport", TRUE)
        r8 == _notify(r7, "display timecode", TRUE)
        r9 == _notify(r8, "timeline position", TRUE)
        r10 == _notify(r9, "playrange", TRUE)
        r11 == _notify(r10, "slot", TRUE)
    IN _notify(r11, "configuration", TRUE)

\* field.split(': ') of a body line; a line that is not a field has no ': '
Split(line) == IF line.k = "field" THEN line.f ELSE <<"">>

\* prop, value = field.split(': ') raises unless the split gives two parts
Unpacks(line) == Len(Split(line)) = 2

----------------------------------------------------------------------------
(* Handlers: one operator per body field, applied line by line; a line that *)
(* raises leaves the fields of the lines before it applied                *)

SetInt(r, field, value) ==
    IF IsInt(value) THEN [r EXCEPT !.d[field] = IntOf[value]] ELSE Raise(r)

ConnectionInfoField(r, prop, value) ==
    CASE prop = "protocol version" -> [r EXCEPT !.d.protocol_version = value]
      [] prop = "model" -> [r EXCEPT !.d.model = value]
      [] OTHER -> r

\* the 'active slot' branch asking for the clips whatever the value
ActiveSlotAlwaysGets(r, value) ==
    IF value # "none"
    THEN IF IsInt(value)
         THEN _send([r EXCEPT !.d.active_slot = IntOf[value]], <<"clips get">>)
         ELSE Raise(r)
    ELSE _send([r EXCEPT !.d.active_slot = NoneInt], <<"clips get">>)

\* the 'active slot' branch of _transport_info
ActiveSlot(r, value) ==
    IF value # "none"
    THEN IF IsInt(value)
         THEN _send([r EXCEPT !.d.active_slot = IntOf[value]], <<"clips get">>)
         ELSE Raise(r)
    ELSE [r EXCEPT !.d.active_slot = NoneInt]

TransportInfoField(r, prop, value) ==
    CASE prop = "status" -> [r EXCEPT !.d.status = value]
      [] prop = "speed" -> SetInt(r, "speed", value)
      [] prop = "slot id" -> SetInt(r, "slot_id", value)
      [] prop = "active slot" -> ActiveSlot(r, value)
      [] prop = "clip id" -> SetInt(r, "clip_id", value)
      [] prop = "single clip" -> [r EXCEPT !.d.single_clip = PyBool(value = "true")]
      [] prop = "display timecode" -> [r EXCEPT !.d.display_timecode = value]
      [] prop = "timecode" -> [r EXCEPT !.d.timecode = value]
      [] prop = "video format" ->
            [r EXCEPT !.d.video_format = value, !.d.framerate = parse_framerate(value)]
      [] prop = "loop" -> [r EXCEPT !.d.loop = PyBool(value = "true")]
      [] prop = "timeline" -> SetInt(r, "timeline_playhead", value)
      [] prop = "input video format" -> [r EXCEPT !.d.input_video_format = value]
      [] prop = "dynamic range" -> [r EXCEPT !.d.dynamic_range = value]
      [] OTHER -> r

TimelinePositionField(r, prop, value) ==
    IF prop = "timeline" THEN SetInt(r, "timeline_playhead", value) ELSE r

DisplayTimecodeField(r, prop, value) ==
    IF prop = "display timecode" THEN [r EXCEPT !.d.display_timecode = value] ELSE r

\* int(value), and 0 on ValueError
PlayrangeInfoField(r, prop, value) ==
    LET n == IF IsInt(value) THEN IntOf[value] ELSE 0
    IN CASE prop = "timeline in" -> [r EXCEPT !.d.timeline_in = n]
         [] prop = "timeline out" -> [r EXCEPT !.d.timeline_out = n]
         [] OTHER -> r

ConfigurationField(r, prop, value) ==
    CASE prop = "audio input" -> [r EXCEPT !.d.audio_input = value]
      [] prop = "audio mapping" -> SetInt(r, "audio_mapping", value)
      [] prop = "video input" -> [r EXCEPT !.d.video_input = value]
      [] prop = "file format" -> [r EXCEPT !.d.file_format = value]
      [] prop = "audio codec" -> [r EXCEPT !.d.audio_codec = value]
      [] prop = "timecode input" -> [r EXCEPT !.d.timecode_input = value]
      [] prop = "timecode output" -> [r EXCEPT !.d.timecode_output = value]
      [] prop = "timecode preference" -> [r EXCEPT !.d.timecode_preference = value]
      [] prop = "audio input channels" -> SetInt(r, "audio_input_channels", value)
      [] prop = "record trigger" -> [r EXCEPT !.d.record_trigger = value]
      [] prop = "record prefix" -> [r EXCEPT !.d.record_prefix = value]
      [] prop = "append timestamp" -> [r EXCEPT !.d.append_timestamp = PyBool(value = "true")]
      [] prop = "genlock input resync" ->
            [r EXCEPT !.d.genlock_input_resync = PyBool(value = "true")]
      [] OTHER -> r

DeviceInfoField(r, prop, value) ==
    CASE prop = "protocol version" -> [r EXCEPT !.d.protocol_version = value]
      [] prop = "model" -> [r EXCEPT !.d.model = value]
      [] prop = "unique id" -> [r EXCEPT !.d.unique_id = value]
      [] prop = "slot count" -> SetInt(r, "slot_count", value)
      [] prop = "software version" -> [r EXCEPT !.d.software_version = value]
      [] OTHER -> r

PlayOptionField(r, prop, value) ==
    IF prop = "stop mode" THEN [r EXCEPT !.d.stop_mode = value] ELSE r

Field(h, r, prop, value) ==
    CASE h = "connection info" -> ConnectionInfoField(r, prop, value)
      [] h = "transport info" -> TransportInfoField(r, prop, value)
      [] h = "timeline position" -> TimelinePositionField(r, prop, value)
      [] h = "display timecode" -> DisplayTimecodeField(r, prop, value)
      [] h = "playrange info" -> PlayrangeInfoField(r, prop, value)
      [] h = "configuration" -> ConfigurationField(r, prop, value)
      [] h = "device info" -> DeviceInfoField(r, prop, value)
      [] h = "play option info" -> PlayOptionField(r, prop, value)

\* for field in body: prop, value = field.split(': '); ...
RECURSIVE ForFields(_, _, _)
ForFields(h, body, r) ==
    IF body = <<>> \/ r.err THEN r
    ELSE IF ~Unpacks(Head(body)) THEN Raise(r)
    ELSE ForFields(h, Tail(body),
                   Field(h, r, Split(Head(body))[1], Split(Head(body))[2]))

_connection_info(r, body) == _startup(ForFields("connection info", body, r))

_transport_info(r, body) == ForFields("transport info", body, r)

_timeline_position(r, body) == ForFields("timeline position", body, r)

_display_timecode(r, body) == ForFields("display timecode", body, r)

_playrange_info(r, body) == ForFields("playrange info", body, r)

_configuration(r, body) == ForFields("configuration", body, r)

_play_option(r, body) == ForFields("play option info", body, r)

\* the loop of _slot_info and _disk_list that looks for the 'slot id' line and
\* breaks there; slot stays None when the body has none
RECURSIVE FindSlotId(_)
FindSlotId(body) ==
    IF body = <<>> THEN [err |-> FALSE, slot |-> None]
    ELSE IF ~Unpacks(Head(body)) THEN [err |-> TRUE, slot |-> None]
    ELSE IF Split(Head(body))[1] = "slot id"
         THEN [err |-> FALSE, slot |-> Split(Head(body))[2]]
         ELSE FindSlotId(Tail(body))

\* Slot._slot_info, on the record of one slot
SlotInfoField(sr, prop, value) ==
    CASE prop = "status" -> [sr EXCEPT !.s.status = value]
      [] prop = "volume name" -> [sr EXCEPT !.s.volume_name = value]
      [] prop = "recording time" ->
            IF IsInt(value) THEN [sr EXCEPT !.s.recording_time = IntOf[value]]
            ELSE [sr EXCEPT !.err = TRUE]
      [] prop = "video format" ->
            [sr EXCEPT !.s.video_format = value, !.s.framerate = parse_framerate(value)]
      [] prop = "blocked" -> [sr EXCEPT !.s.blocked = PyBool(value = "true")]
      [] OTHER -> sr

RECURSIVE Slot_slot_info(_, _)
Slot_slot_info(sr, body) ==
    IF body = <<>> \/ sr.err THEN sr
    ELSE IF ~Unpacks(Head(body)) THEN [sr EXCEPT !.err = TRUE]
    ELSE Slot_slot_info(SlotInfoField(sr, Split(Head(body))[1], Split(Head(body))[2]),
                        Tail(body))

\* sum of recording_time over the slots whose keys are in keys
RECURSIVE SumRecordingTime(_, _)
SumRecordingTime(slots, keys) ==
    IF keys = {} THEN 0
    ELSE LET k == CHOOSE x \in keys : TRUE
         IN slots[k].recording_time + SumRecordingTime(slots, keys \ {k})

\* the remaining time of the first slot alone, as the docstring words it
_recording_time_first_slot(r) ==
    [r EXCEPT !.d.remaining_time =
        IF "1" \in DOMAIN r.d.slots THEN r.d.slots["1"].recording_time ELSE 0]

_recording_time_remaining(r) ==
    [r EXCEPT !.d.remaining_time = SumRecordingTime(r.d.slots, DOMAIN r.d.slots)]

\* _slot_info without the test for 'none'
_slot_info_unguarded(r, body) ==
    LET found == FindSlotId(body)
        slot == found.slot
    IN IF found.err THEN Raise(r)
       ELSE IF slot \notin DOMAIN r.d.slots THEN Raise(r)
       ELSE LET sr == Slot_slot_info([s |-> r.d.slots[slot], err |-> FALSE], body)
                r1 == [r EXCEPT !.d.slots[slot] = sr.s]
            IN IF sr.err THEN Raise(r1) ELSE _recording_time_remaining(r1)

_slot_info(r, body) ==
    LET found == FindSlotId(body)
        slot == found.slot
    IN IF found.err THEN Raise(r)
       ELSE IF slot # "none"
       THEN IF slot \notin DOMAIN r.d.slots THEN Raise(r)
            ELSE LET sr == Slot_slot_info([s |-> r.d.slots[slot], err |-> FALSE], body)
                     r1 == [r EXCEPT !.d.slots[slot] = sr.s]
                 IN IF sr.err THEN Raise(r1) ELSE _recording_time_remaining(r1)
       ELSE r

\* the loop of _device_info without the disk-list request
RECURSIVE MakeSlotsNoDiskList(_, _)
MakeSlotsNoDiskList(r, slot) ==
    IF r.err \/ slot >= r.d.slot_count THEN r
    ELSE LET key == StrOf(slot + 1)
             r1 == [r EXCEPT !.d.slots = (key :> Slot(slot + 1)) @@ @]
             r2 == _send(r1, <<"slot info: slot id: ", key>>)
         IN MakeSlotsNoDiskList(r2, slot + 1)

\* for slot in range(self.slot_count): a fresh Slot and its two requests
RECURSIVE MakeSlots(_, _)
MakeSlots(r, slot) ==
    IF r.err \/ slot >= r.d.slot_count THEN r
    ELSE LET key == StrOf(slot + 1)
             r1 == [r EXCEPT !.d.slots = (key :> Slot(slot + 1)) @@ @]
             r2 == _send(r1, <<"slot info: slot id: ", key>>)
             r3 == _send(r2, <<"disk list: slot id: ", key>>)
         IN MakeSlots(r3, slot + 1)

\* the state fields the loop of _device_info assigns for this body
DeviceInfoAttrs(body) ==
    {a \in {"protocol_version", "model", "unique_id", "slot_count", "software_version"} :
        \E i \in 1..Len(body) :
            /\ Unpacks(body[i])
            /\ \/ Split(body[i])[1] = "protocol version" /\ a = "protocol_version"
               \/ Split(body[i])[1] = "model" /\ a = "model"
               \/ Split(body[i])[1] = "unique id" /\ a = "unique_id"
               \/ Split(body[i])[1] = "slot count" /\ a = "slot_count"
               \/ Split(body[i])[1] = "software version" /\ a = "software_version"}

\* reading a field the object does not have yet raises AttributeError:
\* slot_count and slots in the loop over the slots, the three fields of the
\* log record after it
_device_info(r, body) ==
    LET r0 == ForFields("device info", body, r)
        has == r.have \cup DeviceInfoAttrs(body)
        r1 == MakeSlots(r0, 0)
    IN IF r0.err THEN r0
       ELSE IF "slot_count" \notin has THEN Raise(r0)
       ELSE IF r0.d.slot_count > 0 /\ "slots" \notin has THEN Raise(r0)
       ELSE IF r1.err THEN r1
       ELSE IF ~({"model", "software_version", "protocol_version"} \subseteq has)
       THEN Raise(r1)
       ELSE [r1 EXCEPT !.log = "info"]

\* Timeline._clip_info: the loop over the body, on the timeline record
RECURSIVE ClipInfoLoop(_, _, _)
ClipInfoLoop(tr, body, framerate) ==
    IF body = <<>> \/ tr.err THEN tr
    ELSE IF ~Unpacks(Head(body)) THEN [tr EXCEPT !.err = TRUE]
    ELSE LET prop == Split(Head(body))[1]
             value == Split(Head(body))[2]
         IN IF prop = "clip count" THEN ClipInfoLoop(tr, Tail(body), framerate)
            ELSE IF ~IsInt(prop) THEN [tr EXCEPT !.err = TRUE]
            ELSE LET c == TimelineClip(IntOf[prop], value, framerate)
                 IN IF c.err THEN [tr EXCEPT !.err = TRUE]
                    ELSE ClipInfoLoop(
                            [tr EXCEPT !.t.duration = @ + c.clip.duration_frames,
                                       !.t.clips = Append(@, c.clip)],
                            Tail(body), framerate)

Timeline_clip_info(t, body, framerate) ==
    ClipInfoLoop([t |-> [t EXCEPT !.clips = <<>>, !.framerate = framerate],
                  err |-> FALSE],
                 body, framerate)

\* self.timeline and self.framerate are read before the call
_clips_info(r, body) ==
    LET tr == Timeline_clip_info(r.d.timeline, body, r.d.framerate)
        r1 == [r EXCEPT !.d.timeline = tr.t]
    IN IF ~({"timeline", "framerate"} \subseteq r.have) THEN Raise(r)
       ELSE IF tr.err THEN Raise(r1) ELSE r1

\* Slot._disk_list: the loop over the body, on the record of one slot
RECURSIVE DiskListLoop(_, _)
DiskListLoop(sr, body) ==
    IF body = <<>> \/ sr.err THEN sr
    ELSE IF ~Unpacks(Head(body)) THEN [sr EXCEPT !.err = TRUE]
    ELSE LET prop == Split(Head(body))[1]
             value == Split(Head(body))[2]
         IN IF prop = "slot id" THEN DiskListLoop(sr, Tail(body))
            ELSE IF ~IsInt(prop) THEN [sr EXCEPT !.err = TRUE]
            ELSE LET c == DiskClip(IntOf[prop], value, sr.s.framerate)
                 IN IF c.err THEN [sr EXCEPT !.err = TRUE]
                    ELSE DiskListLoop([sr EXCEPT !.s.clips = Append(@, c.clip)],
                                      Tail(body))

Slot_disk_list(s, body) ==
    DiskListLoop([s |-> [s EXCEPT !.clips = <<>>], err |-> FALSE], body)

_disk_list(r, body) ==
    LET found == FindSlotId(body)
        slot == found.slot
    IN IF found.err \/ slot \notin DOMAIN r.d.slots THEN Raise(r)
       ELSE LET sr == Slot_disk_list(r.d.slots[slot], body)
                r1 == [r EXCEPT !.d.slots[slot] = sr.s]
            IN IF sr.err THEN Raise(r1) ELSE r1

\* the text of a line, as the pieces around its ': '
RECURSIVE Text(_)
Text(parts) ==
    IF Len(parts) <= 1 THEN parts
    ELSE <<Head(parts), ": ">> \o Text(Tail(parts))

\* _format that leaves the confirmation to the user
_format_silent(r, body) ==
    IF body = <<>> THEN Raise(r) ELSE r

\* body[0] is the token; an empty body raises IndexError
_format(r, body) ==
    IF body = <<>> THEN Raise(r)
    ELSE _send(r, <<"format: confirm: ">> \o Text(Split(Head(body))))

----------------------------------------------------------------------------
(* Router *)

_asynchronous_response_processor(r, tok, body) ==
    CASE tok = "connection info" -> _connection_info(r, body)
      [] tok = "slot info" -> _slot_info(r, body)
      [] tok = "transport info" -> _transport_info(r, body)
      [] tok = "timeline position" -> _timeline_position(r, body)
      [] tok = "display timecode" -> _display_timecode(r, body)
      [] tok = "playrange info" -> _playrange_info(r, body)
      [] tok = "configuration" -> _configuration(r, body)
      [] OTHER -> r

_success_response_processor(r, tok, body) ==
    CASE tok = "slot info" -> _slot_info(r, body)
      [] tok = "device info" -> _device_info(r, body)
      [] tok = "transport info" -> _transport_info(r, body)
      [] tok = "playrange info" -> _playrange_info(r, body)
      [] tok = "configuration" -> _configuration(r, body)
      [] tok = "clips info" -> _clips_info(r, body)
      [] tok = "disk list" -> _disk_list(r, body)
      [] tok = "format ready" -> _format(r, body)
      [] tok = "play option info" -> _play_option(r, body)
      [] OTHER -> r

\* _get_status_of_message: int(blocks[0]) and blocks[1] exist on a status line only
HasStatus(line) == line.k = "status"

\* message.rstrip('\r\n\r\n'): the trailing CR and LF go, and with them every
\* trailing blank line
RECURSIVE RStrip(_)
RStrip(lines) ==
    IF lines # <<>> /\ lines[Len(lines)].k = "blank"
    THEN RStrip(SubSeq(lines, 1, Len(lines) - 1))
    ELSE lines

\* _decode_message with 200 inside the success range
_decode_message_from_200(r, message) ==
    LET lines == RStrip(message)
        status == lines[1]
        body == Tail(lines)
    IN IF ~HasStatus(status) THEN Raise(r)
       ELSE IF 500 <= status.code /\ status.code <= 599
            THEN _asynchronous_response_processor(r, status.tok, body)
       ELSE IF 200 <= status.code /\ status.code <= 299
            THEN _success_response_processor(r, status.tok, body)
       ELSE r

_decode_message(r, message) ==
    LET lines == RStrip(message)
        status == lines[1]
        body == Tail(lines)
    IN IF ~HasStatus(status) THEN Raise(r)
       ELSE IF 500 <= status.code /\ status.code <= 599
            THEN _asynchronous_response_processor(r, status.tok, body)
       ELSE IF 200 < status.code /\ status.code <= 299
            THEN _success_response_processor(r, status.tok, body)
       ELSE r

\* _decode_response that raises on a failure response
_decode_response_raising(r, message) ==
    LET response == message[1]
    IN IF ~HasStatus(response) THEN Raise(r)
       ELSE IF response.code < 200 THEN Raise([r EXCEPT !.log = "warning"])
       ELSE r

_decode_response(r, message) ==
    LET response == message[1]
    IN IF ~HasStatus(response) THEN Raise(r)
       ELSE IF response.code < 200 THEN [r EXCEPT !.log = "warning"]
       ELSE r

----------------------------------------------------------------------------
(* Framer: the two read_until calls of _reader *)

\* message.decode('ascii')[-3] == ':'
EndsInColon(line) == line.k = "status" /\ line.colon

\* read_until(CRLF CRLF) after the first line: the bytes up to the first CRLF
\* that another CRLF follows, which is the first blank line that is not the
\* very next line
BlockEnds(buf) == {j \in 3..Len(buf) : buf[j].k = "blank"}

Min(S) == CHOOSE x \in S : \A y \in S : x <= y

\* the read can return: a whole unit is buffered, or the peer has gone
CanRead(buf, up) ==
    \/ ~up
    \/ buf # <<>> /\ (EndsInColon(buf[1]) => BlockEnds(buf) # {})

\* number of lines the step takes off the buffer
Taken(buf) ==
    IF buf = <<>> THEN 0
    ELSE IF ~EndsInColon(buf[1]) THEN 1
    ELSE IF BlockEnds(buf) # {} THEN Min(BlockEnds(buf))
    ELSE Len(buf)

\* the read raises: EOFError on a closed connection with nothing buffered,
\* IndexError on a line shorter than three characters
ReadRaises(buf) ==
    \/ buf = <<>>
    \/ buf[1].k = "blank"
    \/ EndsInColon(buf[1]) /\ Len(buf) = 1

\* the body of the try block of _reader, on the message the reads returned
Dispatch(r, message) ==
    IF EndsInColon(message[1]) THEN _decode_message(r, message)
    ELSE _decode_response(r, message)

----------------------------------------------------------------------------
(* The device: what it sends *)

\* the connection-info block the device sends when it accepts a connection
Announces ==
    {Block(500, "connection info", b) : b \in
        {<<Fld(<<"protocol version", "1.11">>), Fld(<<"model", "HyperDeck Studio Mini">>)>>,
         <<Fld(<<"dummy", "0">>)>>}}

Ok == <<St(200, "ok")>>

\* answers and notifications about the slots
SlotUnits ==
    {Block(204, "device info", <<Fld(<<"model", "HyperDeck Studio Mini">>),
                                 Fld(<<"slot count", "2">>)>>),
     Block(204, "device info", <<Fld(<<"slot count", "1">>)>>),
     Block(202, "slot info", <<Fld(<<"slot id", "1">>), Fld(<<"status", "mounted">>),
                               Fld(<<"recording time", "100">>)>>),
     Block(502, "slot info", <<Fld(<<"slot id", "2">>), Fld(<<"recording time", "250">>),
                               Fld(<<"video format", "1080p25">>)>>),
     Block(502, "slot info", <<Fld(<<"slot id", "none">>),
                               Fld(<<"recording time", "100">>)>>),
     Block(202, "slot info", <<Fld(<<"slot id", "none">>)>>),
     Block(502, "slot info", <<Fld(<<"slot id", "2">>), Fld(<<"recording time", "100">>),
                               Fld(<<"volume name", "disk", "two">>)>>)}

\* answers and notifications about the transport
TransportUnits ==
    {Block(508, "transport info", <<Fld(<<"status", "stopped">>),
                                    Fld(<<"active slot", "none">>)>>),
     Block(208, "transport info", <<Fld(<<"status", "play">>), Fld(<<"active slot", "2">>),
                                    Fld(<<"video format", "1080p25">>)>>),
     Block(208, "transport info", <<Fld(<<"status", "stopped">>), Fld(<<"slot id", "none">>),
                                    Fld(<<"active slot", "none">>)>>),
     Block(508, "transport info", <<Fld(<<"active slot", "1">>), Fld(<<"clip id", "none">>)>>)}

\* answers about the timeline, and the video formats they are read at
TimelineUnits ==
    {Block(508, "transport info", <<Fld(<<"video format", "1080p25">>)>>),
     Block(508, "transport info", <<Fld(<<"video format", "NTSC">>)>>),
     Block(205, "clips info", <<Fld(<<"clip count", "0">>)>>),
     Block(205, "clips info", <<Fld(<<"clip count", "1">>),
                                Fld(<<"1", "a.mov 00:00:00:00 00:00:00:10">>)>>),
     Block(205, "clips info", <<Fld(<<"clip count", "2">>),
                                Fld(<<"1", "a.mov 00:00:00:00 00:00:00:10">>),
                                Fld(<<"2", "b.mov 00:00:00:10 00:00:01:00">>)>>),
     Block(205, "clips info", <<Fld(<<"clip count", "2">>),
                                Fld(<<"1", "a.mov 00:00:00:00 00:00:00:10">>),
                                Fld(<<"2", "b.mov">>)>>)}

\* an acknowledgement, a line that is no status line, a block the router does
\* not know, a block with no body, and a notification with and without a
\* number in it
OtherUnits ==
    {Ok,
     <<Junk>>,
     Block(599, "unknown", <<Fld(<<"x", "0">>)>>),
     Block(210, "play option info", <<>>),
     Block(514, "timeline position", <<Fld(<<"timeline", "3">>)>>),
     Block(514, "timeline position", <<Fld(<<"timeline", "none">>)>>)}

\* a failure response, blocks outside the two routed ranges, blocks whose
\* token the processor of their range does not know, and a notification
\* that is routed
ReplyUnits ==
    {<<St(100, "syntax error")>>,
     Block(200, "transport info", <<Fld(<<"status", "play">>)>>),
     Block(599, "unknown", <<Fld(<<"x", "0">>)>>),
     Block(502, "device info", <<Fld(<<"slot count", "2">>)>>),
     Block(205, "connection info", <<Fld(<<"model", "HyperDeck Shuttle">>)>>),
     Block(514, "timeline position", <<Fld(<<"timeline", "3">>)>>)}

----------------------------------------------------------------------------
(* The reader thread and its environment *)

\* the commands of _startup, as the socket sees them
StartupSeq ==
    <<<<"device info">>, <<"configuration">>, <<"transport info">>, <<"playrange">>,
      <<"clips get">>, <<"play option">>,
      <<"notify: ", "transport", ": ", "true">>,
      <<"notify: ", "display timecode", ": ", "true">>,
      <<"notify: ", "timeline position", ": ", "true">>,
      <<"notify: ", "playrange", ": ", "true">>,
      <<"notify: ", "slot", ": ", "true">>,
      <<"notify: ", "configuration", ": ", "true">>>>

CountStartups(cmds) ==
    Cardinality({i \in 1..Len(cmds) :
        /\ i + Len(StartupSeq) - 1 <= Len(cmds)
        /\ SubSeq(cmds, i, i + Len(StartupSeq) - 1) = StartupSeq})

\* writes a step's socket accepts before one raises
WriteBudgets(up) == IF up THEN {NoFail} ELSE (0..MaxWriteOK) \cup {NoFail}

\* what went wrong in a read step
Stage(buf, r) ==
    IF ~r.err THEN "none"
    ELSE IF ReadRaises(buf) THEN "read"
    ELSE IF ~HasStatus(buf[1]) THEN "decode"
    ELSE "handler"

\* the contexts that call _send: a caller of the API, and the read context
\* when a handler writes
Writers == {"caller", "reader"}

\* the command a context writes: stop() begins with 'stop', _transport_info
\* asks for the clips of an active slot
CommandOf(c) == IF c = "caller" THEN <<"stop">> ELSE <<"clips get">>

\* bytes(command + '\r\n', 'ascii')
Encode(command) ==
    CASE command = <<"stop">> -> <<"s", "t", "o", "p", "\r", "\n">>
      [] command = <<"clips get">> ->
            <<"c", "l", "i", "p", "s", " ", "g", "e", "t", "\r", "\n">>

NoCall == [op |-> "none", clip_id |-> 0, count |-> 0, raised |-> FALSE, out |-> <<>>]

\* no context has a write under way
Quiet == [c \in Writers |-> [buf |-> <<>>, n |-> 0]]

NoUnit == [conn |-> 0, msg |-> <<>>, err |-> FALSE, stage |-> "none"]

InitReader(U) ==
    /\ pc = "read"
    /\ conn = 1
    /\ linkUp = TRUE
    /\ inbuf \in Announces
    /\ dev = InitDev
    /\ out = <<>>
    /\ wconn = 0
    /\ last = NoUnit
    /\ logged = "none"
    /\ waited = 0
    /\ pingOwed = FALSE
    /\ startups = 0
    /\ units = U

\* no write is under way, no call has been made
InitAside ==
    /\ wire = <<>>
    /\ sending = Quiet
    /\ call = NoCall

\* __init__ has returned before the device sends anything
InitWith(U) ==
    /\ InitReader(U)
    /\ ctor = CtorDone
    /\ written = {}
    /\ InitAside
    /\ script = <<>>
    /\ arith = NoTc

Init == InitWith(OtherUnits)

InitSlots == InitWith(SlotUnits)

InitTransport == InitWith(TransportUnits)

InitTimeline == InitWith(TimelineUnits)

InitReplies == InitWith(ReplyUnits)

\* one pass of the loop of _reader: the try block, and logger.error on a raise
ReadUnit ==
    /\ pc = "read"
    /\ CanRead(inbuf, linkUp)
    /\ \E w \in WriteBudgets(linkUp) :
         LET n == Taken(inbuf)
             message == SubSeq(inbuf, 1, n)
             r0 == Begin(dev, w)
             r == IF ReadRaises(inbuf) THEN Raise(r0) ELSE Dispatch(r0, message)
         IN /\ r.d.timeline.duration <= MaxDuration
            /\ dev' = r.d
            /\ out' = r.out
            /\ wconn' = IF r.out # <<>> THEN conn ELSE wconn
            /\ inbuf' = IF r.err THEN <<>> ELSE SubSeq(inbuf, n + 1, Len(inbuf))
            /\ last' = [conn |-> conn, msg |-> RStrip(message), err |-> r.err,
                        stage |-> Stage(inbuf, r)]
            /\ logged' = IF r.err THEN "error" ELSE r.log
            /\ pc' = IF r.err THEN "sleep" ELSE "read"
            /\ waited' = IF r.err THEN 0 ELSE waited
            /\ startups' = startups + CountStartups(r.out)
            /\ pingOwed' = IF r.err THEN FALSE ELSE pingOwed
            /\ written' = IF ctor < CtorDone
                           THEN written \cup {a \in DOMAIN dev : r.d[a] # dev[a]}
                           ELSE written
    /\ UNCHANGED <<conn, linkUp, units, ctor, aside>>

\* the except clause without its sleep
SleepNoDelay ==
    /\ pc = "sleep"
    /\ pc' = "connect"
    /\ out' = <<>>
    /\ UNCHANGED <<conn, linkUp, inbuf, dev, wconn, last, logged, waited, pingOwed,
                   startups, units,
                   ctor, written, aside>>

\* time.sleep(3)
Sleep ==
    /\ pc = "sleep"
    /\ pc' = "connect"
    /\ waited' = waited + ReconnectDelay
    /\ out' = <<>>
    /\ UNCHANGED <<conn, linkUp, inbuf, dev, wconn, last, logged, pingOwed,
                   startups, units,
                   ctor, written, aside>>

\* self.connection = Telnet(...): the device accepts and announces itself
ConnectOK ==
    /\ pc = "connect"
    /\ conn < MaxConn
    /\ pc' = "ping"
    /\ conn' = conn + 1
    /\ linkUp' = TRUE
    /\ inbuf' \in Announces
    /\ startups' = 0
    /\ pingOwed' = FALSE
    /\ out' = <<>>
    /\ UNCHANGED <<dev, wconn, last, logged, waited, units,
                   ctor, written, aside>>

\* Telnet(...) raises inside the except clause: nothing catches it
ConnectRefused ==
    /\ pc = "connect"
    /\ pc' = "dead"
    /\ out' = <<>>
    /\ UNCHANGED <<conn, linkUp, inbuf, dev, wconn, last, logged, waited,
                   pingOwed, startups, units,
                   ctor, written, aside>>

\* a reconnect that runs the startup sequence itself, after the ping
ProbeAndStartup(r) == _startup(_send(r, <<"ping">>))

\* what the except clause writes on the new connection
Probe(r) == _send(r, <<"ping">>)

\* self._send('ping') in the except clause; a raise here ends the thread
Ping ==
    /\ pc = "ping"
    /\ \E w \in WriteBudgets(linkUp) :
         LET r == Probe(Begin(dev, w))
         IN /\ pc' = IF r.err THEN "dead" ELSE "read"
            /\ out' = r.out
            /\ wconn' = IF r.out # <<>> THEN conn ELSE wconn
            /\ pingOwed' = ~r.err /\ linkUp
            /\ startups' = startups + CountStartups(r.out)
    /\ UNCHANGED <<conn, linkUp, inbuf, dev, last, logged, waited, units,
                   ctor, written, aside>>

\* the device answers the ping
PingReply ==
    /\ pingOwed /\ linkUp /\ pc = "read"
    /\ Len(inbuf) + 1 <= MaxBuf
    /\ inbuf' = inbuf \o Ok
    /\ pingOwed' = FALSE
    /\ UNCHANGED <<pc, conn, linkUp, dev, out, wconn, last, logged, waited,
                   startups, units,
                   ctor, written, aside>>

\* the device sends an answer or a notification
DeviceSend ==
    /\ linkUp /\ pc = "read"
    /\ \E u \in units :
         /\ Len(inbuf) + Len(u) <= MaxBuf
         /\ inbuf' = inbuf \o u
    /\ UNCHANGED <<pc, conn, linkUp, dev, out, wconn, last, logged, waited,
                   pingOwed, startups, units,
                   ctor, written, aside>>

\* the device or the network closes the connection
Drop ==
    /\ linkUp /\ pc \in {"read", "ping"}
    /\ linkUp' = FALSE
    /\ UNCHANGED <<pc, conn, inbuf, dev, out, wconn, last, logged, waited,
                   pingOwed, startups, units,
                   ctor, written, aside>>

Next ==
    \/ ReadUnit
    \/ Sleep
    \/ ConnectOK
    \/ ConnectRefused
    \/ Ping
    \/ PingReply
    \/ DeviceSend
    \/ Drop

Spec == Init /\ [][Next]_vars

SpecSlots == InitSlots /\ [][Next]_vars

SpecTransport == InitTransport /\ [][Next]_vars

SpecTimeline == InitTimeline /\ [][Next]_vars

SpecReplies == InitReplies /\ [][Next]_vars

----------------------------------------------------------------------------
(* __init__ beside the reader thread it has started *)

\* what a device sends while __init__ is still assigning
CtorUnits ==
    {Block(205, "clips info", <<Fld(<<"clip count", "0">>)>>)}

\* the state at line 26: the thread runs, no state field is assigned yet
InitCtor ==
    /\ InitReader(CtorUnits)
    /\ ctor = 0
    /\ written = {}
    /\ InitAside
    /\ script = <<>>
    /\ arith = NoTc

\* the next assignment of __init__: the field gets its default, whatever
\* the reader has stored in it
Construct ==
    /\ ctor < CtorDone
    /\ ctor' = ctor + 1
    /\ dev' = [dev EXCEPT ![CtorOrder[ctor + 1]] = InitDev[CtorOrder[ctor + 1]]]
    /\ UNCHANGED <<pc, conn, linkUp, inbuf, out, wconn, last, logged, waited,
                   pingOwed, startups, units, written, aside>>

NextCtor ==
    \/ Next
    \/ Construct

SpecCtor == InitCtor /\ [][NextCtor]_vars

----------------------------------------------------------------------------
(* The API: calls from a caller's thread, beside the reader *)

\* an integer in an f-string, as the pieces of its text
Str(n) == IF n >= 0 THEN <<StrOf(n)>> ELSE <<"-", StrOf(0 - n)>>

ClipIds == {1, 2}
Counts == (0 - 1)..MaxCount

\* playrange_clip without its assertion
playrange_clip_unchecked(r, clip_id, count) ==
    _send(r, <<"playrange set: clip id: ">> \o Str(clip_id) \o <<" count: ">> \o Str(count))

\* assert count > 0, then the one _send
playrange_clip(r, clip_id, count) ==
    IF ~(count > 0) THEN Raise(r)
    ELSE _send(r, <<"playrange set: clip id: ">> \o Str(clip_id)
                      \o <<" count: ">> \o Str(count))

\* what a caller's thread writes while the reader runs
CallerUnits == {Ok}

InitCaller == InitWith(CallerUnits)

\* a caller calls playrange_clip
PlayrangeClip ==
    /\ \E clip_id \in ClipIds, count \in Counts, w \in WriteBudgets(linkUp) :
         LET r == playrange_clip(Begin(dev, w), clip_id, count)
         IN call' = [op |-> "playrange_clip", clip_id |-> clip_id, count |-> count,
                     raised |-> r.err, out |-> r.out]
    /\ UNCHANGED <<wire, sending, script, arith, readerVars>>

NextCaller ==
    \/ Next
    \/ PlayrangeClip

SpecCaller == InitCaller /\ [][NextCaller]_vars

----------------------------------------------------------------------------
(* Resynchronisation: a device whose state stays the same over a disconnect *)

\* what this device sends when it accepts a connection
SameAnnounce ==
    Block(500, "connection info", <<Fld(<<"protocol version", "1.11">>),
                                    Fld(<<"model", "HyperDeck Studio Mini">>)>>)

\* its answers to 'device info', 'transport info', 'clips get' and
\* 'slot info: slot id: 1', in the order of the requests
SameAnswers ==
    <<Block(204, "device info", <<Fld(<<"model", "HyperDeck Studio Mini">>),
                                  Fld(<<"slot count", "1">>)>>),
      Block(208, "transport info", <<Fld(<<"video format", "1080p25">>),
                                     Fld(<<"active slot", "none">>)>>),
      Block(205, "clips info", <<Fld(<<"clip count", "1">>),
                                 Fld(<<"1", "a.mov 00:00:00:00 00:00:00:10">>)>>),
      Block(202, "slot info", <<Fld(<<"slot id", "1">>),
                                Fld(<<"recording time", "100">>)>>)>>

\* the reader of this device before it has read anything
InitSame ==
    /\ pc = "read"
    /\ conn = 1
    /\ linkUp = TRUE
    /\ inbuf = SameAnnounce
    /\ dev = InitDev
    /\ out = <<>>
    /\ wconn = 0
    /\ last = NoUnit
    /\ logged = "none"
    /\ waited = 0
    /\ pingOwed = FALSE
    /\ startups = 0
    /\ units = {}
    /\ ctor = CtorDone
    /\ written = {}
    /\ InitAside

InitResync ==
    /\ InitSame
    /\ script = SameAnswers
    /\ arith = NoTc

\* self.connection = Telnet(...): the same device accepts, announces itself
\* and has the same answers to give
ConnectSame ==
    /\ pc = "connect"
    /\ conn < MaxConn
    /\ pc' = "ping"
    /\ conn' = conn + 1
    /\ linkUp' = TRUE
    /\ inbuf' = SameAnnounce
    /\ startups' = 0
    /\ pingOwed' = FALSE
    /\ out' = <<>>
    /\ script' = SameAnswers
    /\ UNCHANGED <<dev, wconn, last, logged, waited, units, ctor, written,
                   wire, sending, call, arith>>

\* the device answers the next request of the startup sequence it was sent
DeviceAnswer ==
    /\ linkUp /\ pc = "read"
    /\ startups >= 1
    /\ script # <<>>
    /\ Len(inbuf) + Len(Head(script)) <= MaxBuf
    /\ inbuf' = inbuf \o Head(script)
    /\ script' = Tail(script)
    /\ UNCHANGED <<pc, conn, linkUp, dev, out, wconn, last, logged, waited,
                   pingOwed, startups, units, ctor, written, wire, sending, call, arith>>

NextResync ==
    \/ ReadUnit
    \/ Sleep
    \/ ConnectSame
    \/ ConnectRefused
    \/ Ping
    \/ PingReply
    \/ DeviceAnswer
    \/ Drop

SpecResync == InitResync /\ [][NextResync]_vars

----------------------------------------------------------------------------
(* Timecode arithmetic: the operands are drawn, then added or subtracted *)

Framerates == {24, 25}

\* timecode strings with every field at its least or its greatest value
TimecodeStrings ==
    {format_timecode(h, m, s, f, d) :
        h \in {0, 99}, m \in {0, 59}, s \in {0, 59}, f \in {0, 23, 24}, d \in BOOLEAN}

\* the Timecodes whose fields are in range at their framerate
Timecodes ==
    {Timecode(format_timecode(h, m, s, f, d), r) :
        h \in {0, 99}, m \in {0, 59}, s \in {0, 59}, f \in {0, 23}, d \in BOOLEAN,
        r \in Framerates}
    \cup {Timecode(format_timecode(h, m, s, 24, d), 25) :
            h \in {0, 99}, m \in {0, 59}, s \in {0, 59}, d \in BOOLEAN}

\* small frame counts, and a minute of frames at 25 with one frame more
Addends == (0..MaxAddend) \cup {60 * 25, 60 * 25 + 1}

Operands ==
    {IntOperand(n) : n \in Addends}
        \cup {TimecodeOperand(x) : x \in Timecodes}
        \cup {StrOperand(s) : s \in TimecodeStrings}

InitTimecode ==
    /\ InitSame
    /\ script = <<>>
    /\ arith \in [phase : {"operands"}, t : Timecodes, x : Operands, res : {NoTimecode}]

\* t + x
Add ==
    /\ arith.phase = "operands"
    /\ arith' = [arith EXCEPT !.phase = "added", !.res = __add__(arith.t, arith.x)]
    /\ UNCHANGED <<wire, sending, call, script, readerVars>>

\* t - x
Subtract ==
    /\ arith.phase = "operands"
    /\ arith' = [arith EXCEPT !.phase = "subtracted", !.res = __sub__(arith.t, arith.x)]
    /\ UNCHANGED <<wire, sending, call, script, readerVars>>

\* (t + n) - n, when t + n has not raised
SubtractBack ==
    /\ arith.phase = "added" /\ arith.x.kind = "int" /\ ~arith.res.err
    /\ arith' = [arith EXCEPT !.phase = "restored", !.res = __sub__(arith.res, arith.x)]
    /\ UNCHANGED <<wire, sending, call, script, readerVars>>

NextTimecode ==
    \/ Add
    \/ Subtract
    \/ SubtractBack

SpecTimecode == InitTimecode /\ [][NextTimecode]_vars

----------------------------------------------------------------------------
(* The write path: _send from two contexts on the one socket *)

\* self.connection.write(...) is entered: nothing keeps a second context out
\* while the first is still inside
BeginWrite(c) ==
    /\ sending[c].buf = <<>>
    /\ sending[c].n < MaxCommands
    /\ sending' = [sending EXCEPT ![c] = [buf |-> Encode(CommandOf(c)), n |-> @.n + 1]]
    /\ UNCHANGED <<wire, call, script, arith, readerVars>>

\* the bytes of write n of context c, as they lie on the socket
Tagged(c, bytes) ==
    [i \in 1..Len(bytes) |-> [by |-> c, n |-> sending[c].n, ch |-> bytes[i]]]

\* one pass of the loop of sendall: the socket takes some of the bytes left
SockSend(c) ==
    /\ sending[c].buf # <<>>
    /\ \E k \in 1..Len(sending[c].buf) :
         /\ wire' = wire \o Tagged(c, SubSeq(sending[c].buf, 1, k))
         /\ sending' = [sending EXCEPT
                ![c].buf = SubSeq(@, k + 1, Len(@))]
    /\ UNCHANGED <<call, script, arith, readerVars>>

NextWriters ==
    \/ \E c \in Writers : BeginWrite(c)
    \/ \E c \in Writers : SockSend(c)

SpecWriters == InitWith({}) /\ [][NextWriters]_vars

----------------------------------------------------------------------------
(* Formatting: format() from a caller, and the device's answer to it *)

\* the device's answer to 'format: prepare', with the token of the day, a
\* notification of the same name, and an acknowledgement
FormatUnits ==
    {Block(216, "format ready", <<Fld(<<"a1b2c3">>)>>),
     Block(216, "format ready", <<Fld(<<"d4e5f6">>)>>),
     Block(516, "format ready", <<Fld(<<"a1b2c3">>)>>),
     Ok}

InitFormat == InitWith(FormatUnits)

format(r) == _send(r, <<"format: prepare: exFAT">>)

\* a caller calls format()
Format ==
    /\ \E w \in WriteBudgets(linkUp) :
         LET r == format(Begin(dev, w))
         IN call' = [op |-> "format", clip_id |-> 0, count |-> 0,
                     raised |-> r.err, out |-> r.out]
    /\ UNCHANGED <<wire, sending, script, arith, readerVars>>

NextFormat ==
    \/ Next
    \/ Format

SpecFormat == InitFormat /\ [][NextFormat]_vars

----------------------------------------------------------------------------
(* Relative motion: the move_ calls of the API *)

\* the offsets a caller passes: backward, none, forward
Offsets == (0 - MaxCount)..MaxCount

\* the durations a caller passes to move_timecode
Durations == {"00:00:00:10", "00:00:01:00"}

\* move_between_clips without its count *= -1
move_between_clips_unnegated(r, count) ==
    IF count > 0 THEN _send(r, <<"goto: clip id: +">> \o Str(count))
    ELSE _send(r, <<"goto: clip id: -">> \o Str(count))

move_between_clips(r, count) ==
    IF count > 0 THEN _send(r, <<"goto: clip id: +">> \o Str(count))
    ELSE _send(r, <<"goto: clip id: -">> \o Str(count * (0 - 1)))

move_within_clip(r, frames) ==
    IF frames > 0 THEN _send(r, <<"goto: clip: +">> \o Str(frames))
    ELSE _send(r, <<"goto: clip: -">> \o Str(frames * (0 - 1)))

move_within_timeline(r, frames) ==
    IF frames > 0 THEN _send(r, <<"goto: timeline: +">> \o Str(frames))
    ELSE _send(r, <<"goto: timeline: -">> \o Str(frames * (0 - 1)))

move_timecode(r, timecode, reverse) ==
    IF reverse THEN _send(r, <<"goto: timecode: -", timecode>>)
    ELSE _send(r, <<"goto: timecode: +", timecode>>)

\* a call of one of the three moves by a number
Moved(op, n, r) ==
    [op |-> op, clip_id |-> 0, count |-> n, raised |-> r.err, out |-> r.out]

MoveBetweenClips ==
    /\ \E count \in Offsets, w \in WriteBudgets(linkUp) :
         call' = Moved("move_between_clips", count,
                       move_between_clips(Begin(dev, w), count))
    /\ UNCHANGED <<wire, sending, script, arith, readerVars>>

MoveWithinClip ==
    /\ \E frames \in Offsets, w \in WriteBudgets(linkUp) :
         call' = Moved("move_within_clip", frames,
                       move_within_clip(Begin(dev, w), frames))
    /\ UNCHANGED <<wire, sending, script, arith, readerVars>>

MoveWithinTimeline ==
    /\ \E frames \in Offsets, w \in WriteBudgets(linkUp) :
         call' = Moved("move_within_timeline", frames,
                       move_within_timeline(Begin(dev, w), frames))
    /\ UNCHANGED <<wire, sending, script, arith, readerVars>>

MoveTimecode ==
    /\ \E timecode \in Durations, reverse \in BOOLEAN, w \in WriteBudgets(linkUp) :
         LET r == move_timecode(Begin(dev, w), timecode, reverse)
         IN call' = [op |-> "move_timecode", clip_id |-> 0, count |-> 0,
                     raised |-> r.err, out |-> r.out,
                     timecode |-> timecode, reverse |-> reverse]
    /\ UNCHANGED <<wire, sending, script, arith, readerVars>>

NextMoves ==
    \/ Next
    \/ MoveBetweenClips
    \/ MoveWithinClip
    \/ MoveWithinTimeline
    \/ MoveTimecode

SpecMoves == InitCaller /\ [][NextMoves]_vars

----------------------------------------------------------------------------
(* Absolute navigation: go_to_clip and go_within_clip *)

\* -1 is the last clip, 0 the first, any other number is written as it is
go_to_clip(r, clip_id) ==
    IF clip_id = 0 - 1 THEN _send(r, <<"goto: clip id: end">>)
    ELSE IF clip_id = 0 THEN _send(r, <<"goto: clip id: start">>)
    ELSE _send(r, <<"goto: clip id: ">> \o Str(clip_id))

\* every number below 0 is the last frame, 0 the first
go_within_clip(r, frame) ==
    IF frame < 0 THEN _send(r, <<"goto: clip: end">>)
    ELSE IF frame = 0 THEN _send(r, <<"goto: clip: start">>)
    ELSE _send(r, <<"goto: clip: ">> \o Str(frame))

GoToClip ==
    /\ \E clip_id \in Offsets, w \in WriteBudgets(linkUp) :
         LET r == go_to_clip(Begin(dev, w), clip_id)
         IN call' = [op |-> "go_to_clip", clip_id |-> clip_id, count |-> 0,
                     raised |-> r.err, out |-> r.out]
    /\ UNCHANGED <<wire, sending, script, arith, readerVars>>

GoWithinClip ==
    /\ \E frame \in Offsets, w \in WriteBudgets(linkUp) :
         LET r == go_within_clip(Begin(dev, w), frame)
         IN call' = [op |-> "go_within_clip", clip_id |-> 0, count |-> frame,
                     raised |-> r.err, out |-> r.out]
    /\ UNCHANGED <<wire, sending, script, arith, readerVars>>

NextGoto ==
    \/ Next
    \/ GoToClip
    \/ GoWithinClip

SpecGoto == InitCaller /\ [][NextGoto]_vars

----------------------------------------------------------------------------
(* Properties *)

\* the last read handed the router a block with this token, in a range it routes
LastWas(tok) ==
    /\ last.msg # <<>>
    /\ EndsInColon(last.msg[1])
    /\ last.msg[1].tok = tok
    /\ \/ 500 <= last.msg[1].code /\ last.msg[1].code <= 599
       \/ 200 < last.msg[1].code /\ last.msg[1].code <= 299

LastBody == Tail(last.msg)

\* the value of the first line of a body with this key, "" when there is none
RECURSIVE ValueOf(_, _)
ValueOf(body, key) ==
    IF body = <<>> THEN ""
    ELSE IF Len(Head(body).f) = 2 /\ Head(body).f[1] = key THEN Head(body).f[2]
    ELSE ValueOf(Tail(body), key)

\* this step is a pass of the read loop
ReadStep == pc = "read" /\ (Len(inbuf') < Len(inbuf) \/ pc' = "sleep")

Occurrences(cmds, c) == Cardinality({i \in 1..Len(cmds) : cmds[i] = c})

\* C1: the read loop is still running in every reachable state: no failure,
\* a refused reconnection included, ends the reader thread.
C1_ReaderNeverTerminates == pc # "dead"

\* C2: on a connection made by a reconnect, where the device announces itself
\* once and answers the ping with a bare response, the startup sequence is
\* written exactly once: never twice, none before the announcement is read, and
\* once as soon as it has been read.
C2_StartupOncePerReconnect ==
    conn > 1 =>
        /\ startups <= 1
        /\ (last.conn # conn => startups = 0)
        /\ (last.conn = conn /\ ~last.err => startups = 1)

C2_Witness ==
    /\ conn > 1 /\ pc = "read" /\ linkUp /\ ~pingOwed
    /\ last.conn = conn /\ last.msg = Ok /\ ~last.err
    /\ startups = 1

\* C3: every failure of a read pass, whatever raised it, is logged and leads
\* to the sleep; the sleep lasts 3; only then is a new connection made; and
\* reading resumes only after 'ping' has been written on the new connection.
C3_RecoveryPath ==
    [][/\ (last'.err /\ ReadStep) =>
             pc' = "sleep" /\ logged' = "error" /\ waited' = 0
       /\ (pc' = "sleep" /\ pc # "sleep") => (ReadStep /\ last'.err)
       /\ (pc' = "connect" /\ pc # "connect") =>
             pc = "sleep" /\ waited' = 3 /\ conn' = conn
       /\ (pc' = "ping" /\ pc # "ping") =>
             pc = "connect" /\ waited = 3 /\ conn' # conn /\ conn' # last.conn
       /\ (pc' = "read" /\ pc # "read") =>
             pc = "ping" /\ conn' = conn /\ out' = <<(<<"ping">>)>> /\ wconn' = conn'
             /\ last' = last /\ inbuf' = inbuf
      ]_vars

C3_Witness ==
    /\ pc = "read" /\ conn > 1 /\ waited = 3
    /\ last.err /\ last.stage = "handler" /\ last.conn # conn
    /\ out = <<(<<"ping">>)>> /\ wconn = conn

\* C4: processing a connection-info block, whatever its body, writes exactly
\* device info, configuration, transport info, playrange, clips get, play
\* option, and then notify: X: true for transport, display timecode, timeline
\* position, playrange, slot and configuration, in this order.
C4_Requests ==
    <<(<<"device info">>), (<<"configuration">>), (<<"transport info">>),
      (<<"playrange">>), (<<"clips get">>), (<<"play option">>)>>

C4_Notified ==
    <<"transport", "display timecode", "timeline position", "playrange", "slot",
      "configuration">>

C4_StartupSequence ==
    (LastWas("connection info") /\ ~last.err) =>
        out = C4_Requests \o [i \in 1..6 |-> <<"notify: ", C4_Notified[i], ": ", "true">>]

C4_Witness ==
    /\ LastWas("connection info") /\ ~last.err
    /\ ValueOf(LastBody, "dummy") = "0"
    /\ Len(out) = 12
    /\ dev.model = None

\* the slot count a device-info body reports
ReportedSlotCount(body) == IntOf[ValueOf(body, "slot count")]

\* the requests that follow the creation of slots 1..n
RECURSIVE FollowUps(_)
FollowUps(n) ==
    IF n = 0 THEN <<>>
    ELSE FollowUps(n - 1) \o <<(<<"slot info: slot id: ", StrOf(n)>>),
                               (<<"disk list: slot id: ", StrOf(n)>>)>>

SlotKeys(n) == {StrOf(i) : i \in 1..n}

\* C5: processing a device-info block that reports slot count n puts a fresh
\* Slot under each of the keys "1".."n", leaves every other entry of the slot
\* map as it was, and writes exactly 2n requests: slot info and disk list for
\* slot 1, then for slot 2, and so on.
C5_DeviceInfoSlots ==
    [][(ReadStep /\ LastWas("device info")' /\ ~last'.err) =>
          LET n == ReportedSlotCount(LastBody')
          IN /\ out' = FollowUps(n)
             /\ Len(out') = 2 * n
             /\ DOMAIN dev'.slots = DOMAIN dev.slots \cup SlotKeys(n)
             /\ \A k \in DOMAIN dev'.slots :
                   IF k \in SlotKeys(n) THEN dev'.slots[k] = Slot(IntOf[k])
                   ELSE dev'.slots[k] = dev.slots[k]
      ]_vars

C5_Witness ==
    /\ LastWas("device info") /\ ~last.err
    /\ ReportedSlotCount(LastBody) = 2
    /\ Len(out) = 4
    /\ DOMAIN dev.slots = {"1", "2"}

\* C6: right after a device-info block has been processed, the keys of the
\* slot map are exactly "1".."slot_count".
C6_SlotKeysMatchCount ==
    (LastWas("device info") /\ ~last.err) =>
        DOMAIN dev.slots = SlotKeys(dev.slot_count)

\* C7: in every state the reader reaches without a handler raising,
\* remaining_time is the sum of recording_time over the slots of the slot
\* map, the states right after a device-info block included.
C7_RemainingTimeIsSum ==
    ~last.err => dev.remaining_time = SumRecordingTime(dev.slots, DOMAIN dev.slots)

RECURSIVE SumDurationFrames(_)
SumDurationFrames(clips) ==
    IF clips = <<>> THEN 0
    ELSE Head(clips).duration_frames + SumDurationFrames(Tail(clips))

\* C8: after a clips-info response has been processed, Timeline.duration is
\* the sum of duration_frames over the clips of the timeline.
C8_DurationIsSum ==
    (LastWas("clips info") /\ ~last.err) =>
        dev.timeline.duration = SumDurationFrames(dev.timeline.clips)

C10_SlotIdNone ==
    [][(ReadStep /\ LastWas("slot info")' /\ ValueOf(LastBody', "slot id") = "none") =>
          /\ dev' = dev
          /\ out' = <<>>
          /\ ~last'.err /\ pc' = "read"
      ]_vars

C10_Witness ==
    /\ LastWas("slot info") /\ ValueOf(LastBody, "slot id") = "none"
    /\ ValueOf(LastBody, "recording time") = "100"
    /\ ~last.err /\ pc = "read"
    /\ DOMAIN dev.slots = {"1", "2"}
    /\ dev.remaining_time = 250

\* the recording time a slot key contributes: nothing when the map lacks it
C11_TimeOf(k) == IF k \in DOMAIN dev.slots THEN dev.slots[k].recording_time ELSE 0

C12_Contiguous(w) ==
    \A i, k \in 1..Len(w) :
        (i < k /\ w[i].by = w[k].by /\ w[i].n = w[k].n) =>
            \A j \in i..k : w[j].by = w[i].by /\ w[j].n = w[i].n

\* C12: when two contexts write at the same time, the bytes of each command
\* and its CRLF reach the socket as one run, with no byte of the other
\* command among them.
C12_WritesExclusive == C12_Contiguous(wire)

\* C13: the state fields are written by the handlers of the read context
\* alone: __init__, which starts the reader before it assigns the defaults,
\* never changes a field the reader has set, and the reader never comes to
\* a clips-info block before the fields its handler reads exist.
C13_ReaderOwnsState ==
    [][/\ dev' # dev => ReadStep
       /\ (ReadStep /\ LastWas("clips info")') => {"timeline", "framerate"} \subseteq Attrs
      ]_vars

\* C14: the clip list of the timeline is replaced as a whole: a clips-info
\* block leaves either the complete new list or, when it fails to decode
\* midway, the list as it was, never a truncated one.
C14_ClipListAtomic ==
    [][(ReadStep /\ LastWas("clips info")' /\ last'.err) =>
          dev'.timeline.clips = dev.timeline.clips
      ]_vars

\* the last read handed the router this bare status line
LastLine == IF last.msg = <<>> THEN Junk ELSE last.msg[1]

\* C15: a failure response, a status line with a code below 200, only
\* produces a log record: no state field changes, nothing is written, nothing
\* is raised, the recovery path is not entered, and the loop goes on with
\* the line after it.
C15_FailureOnlyLogged ==
    [][(/\ ReadStep
        /\ LastLine'.k = "status" /\ ~LastLine'.colon /\ LastLine'.code < 200) =>
          /\ dev' = dev
          /\ out' = <<>>
          /\ ~last'.err /\ pc' = "read" /\ waited' = waited
          /\ logged' = "warning"
          /\ inbuf' = Tail(inbuf)
      ]_vars

C15_Witness ==
    /\ last.msg = <<St(100, "syntax error")>>
    /\ ~last.err /\ pc = "read"
    /\ logged = "warning"
    /\ out = <<>>
    /\ dev.timeline_playhead = 3
    /\ inbuf # <<>>

\* the tokens each processor routes
C16_AsyncTokens ==
    {"connection info", "slot info", "transport info", "timeline position",
     "display timecode", "playrange info", "configuration"}

C16_SuccessTokens ==
    {"slot info", "device info", "transport info", "playrange info", "configuration",
     "clips info", "disk list", "format ready", "play option info"}

\* a block with a body that no handler is routed for
C16_Unrouted(msg) ==
    /\ Len(msg) >= 2
    /\ EndsInColon(msg[1])
    /\ \A i \in 2..Len(msg) : msg[i].k = "field"
    /\ \/ ~(500 <= msg[1].code /\ msg[1].code <= 599)
          /\ ~(200 < msg[1].code /\ msg[1].code <= 299)
       \/ 500 <= msg[1].code /\ msg[1].code <= 599 /\ msg[1].tok \notin C16_AsyncTokens
       \/ 200 < msg[1].code /\ msg[1].code <= 299 /\ msg[1].tok \notin C16_SuccessTokens

\* C16: a well-formed block whose code is outside 500..599 and 201..299, or
\* whose token its range does not route, is ignored: no state field changes,
\* nothing is written and the recovery path is not entered.
C16_UnroutedIgnored ==
    [][(ReadStep /\ C16_Unrouted(last'.msg)) =>
          /\ dev' = dev
          /\ out' = <<>>
          /\ ~last'.err /\ pc' = "read"
      ]_vars

C16_Witness ==
    /\ C16_Unrouted(last.msg)
    /\ last.msg[1].code = 200 /\ last.msg[1].tok = "transport info"
    /\ ~last.err /\ pc = "read"
    /\ dev.status = None
    /\ dev.timeline_playhead = 3
    /\ out = <<>>

\* the one command playrange_clip writes
C17_Command(c) ==
    <<"playrange set: clip id: ", StrOf(c.clip_id), " count: ", StrOf(c.count)>>

\* C17: playrange_clip with a count of 0 or less is rejected in the call and
\* writes nothing; with a count above 0 it writes exactly one command,
\* 'playrange set: clip id: <id> count: <count>', and on a socket that has
\* gone it raises with nothing written.
C17_PlayrangeClip ==
    [][(call' # call /\ call'.op = "playrange_clip") =>
          /\ call'.count <= 0 => call'.raised /\ call'.out = <<>>
          /\ call'.count > 0 =>
                /\ linkUp => ~call'.raised
                /\ call'.out = IF call'.raised THEN <<>> ELSE <<C17_Command(call')>>
          /\ UNCHANGED readerVars
      ]_vars

C17_Witness ==
    /\ call.op = "playrange_clip" /\ call.clip_id = 2 /\ call.count = 0
    /\ call.raised /\ call.out = <<>>
    /\ linkUp

\* the state fields after the handlers have decoded these units in turn
RECURSIVE C18_After(_, _)
C18_After(d, us) ==
    IF us = <<>> THEN d
    ELSE C18_After(Dispatch(Begin(d, NoFail), Head(us)).d, Tail(us))

\* the state the first startup leaves
C18_FirstStartup == C18_After(InitDev, <<SameAnnounce>> \o SameAnswers)

\* every answer to the startup sequence written on this connection has been
\* decoded
C18_Resynced ==
    /\ pc = "read" /\ inbuf = <<>> /\ script = <<>>
    /\ last.conn = conn /\ ~last.err

\* C18: resynchronisation is idempotent: with a device whose state is the
\* same before and after a disconnect, the state fields after the answers to
\* the startup sequence have been decoded are those the first startup left,
\* on the first connection and on every later one.
C18_ResyncIdempotent == C18_Resynced => dev = C18_FirstStartup

\* C19: for a Timecode t with its fields in range and an integer n >= 0,
\* t + n is a Timecode and (t + n) - n has the hours, minutes, seconds,
\* frames, drop-frame flag and framerate of t.
C19_AddThenSubtract ==
    /\ (arith.phase = "added" /\ arith.x.kind = "int") => ~arith.res.err
    /\ arith.phase = "restored" =>
          /\ ~arith.res.err
          /\ arith.res.hours = arith.t.hours /\ arith.res.minutes = arith.t.minutes
          /\ arith.res.seconds = arith.t.seconds /\ arith.res.frames = arith.t.frames
          /\ arith.res.dropcode = arith.t.dropcode /\ arith.res.framerate = arith.t.framerate

\* the frames these fields stand for at framerate r
C20_Frames(f, r) == ((f.hours * 60 + f.minutes) * 60 + f.seconds) * r + f.frames

\* the value of the subtrahend, read at the framerate of t
C20_Value(x, r) ==
    CASE x.kind = "int" -> x.n
      [] x.kind = "Timecode" -> C20_Frames(x.t, r)
      [] x.kind = "str" -> C20_Frames(Timecode(x.s, r), r)

C20_Zero(drop) ==
    IF drop THEN <<"0", "0", ":", "0", "0", ":", "0", "0", ";", "0", "0">>
    ELSE <<"0", "0", ":", "0", "0", ":", "0", "0", ":", "0", "0">>

\* C20: a subtraction t - x whose subtrahend, a Timecode, a frame count of 0
\* or more or a timecode string, stands for more frames than t gives
\* 00:00:00:00, or 00:00:00;00 when t is drop-frame; and the result of a
\* subtraction never has a field below 0.
C20_SubtractClamps ==
    arith.phase = "subtracted" =>
        /\ ~arith.res.err =>
              arith.res.hours >= 0 /\ arith.res.minutes >= 0
                  /\ arith.res.seconds >= 0 /\ arith.res.frames >= 0
        /\ C20_Value(arith.x, arith.t.framerate) > C20_Frames(arith.t, arith.t.framerate) =>
              /\ ~arith.res.err
              /\ arith.res.hours = 0 /\ arith.res.minutes = 0
              /\ arith.res.seconds = 0 /\ arith.res.frames = 0
              /\ arith.res.timecode = C20_Zero(arith.t.dropcode)
              /\ format_timecode(arith.res.hours, arith.res.minutes, arith.res.seconds,
                                 arith.res.frames, arith.res.dropcode) = C20_Zero(arith.t.dropcode)

C20_Witness ==
    /\ arith.phase = "subtracted"
    /\ arith.t.timecode = <<"0", "0", ":", "0", "0", ":", "5", "9", ";", "2", "4">>
    /\ arith.t.framerate = 25
    /\ arith.x.kind = "int" /\ arith.x.n = 60 * 25 + 1
    /\ arith.res.timecode = C20_Zero(TRUE)
    /\ arith.res.dropcode

\* C21: t + x and t - x, with x a Timecode, an integer or a timecode string,
\* each give a Timecode with the drop-frame flag and the framerate of t,
\* whatever those of x are.
C21_LeftOperandKept ==
    arith.phase \in {"added", "subtracted"} =>
        /\ ~arith.res.err
        /\ arith.res.dropcode = arith.t.dropcode
        /\ arith.res.framerate = arith.t.framerate

\* the units the device sends on a connection, as the router should get them
C22_ProtocolUnits == {RStrip(u) : u \in units \cup Announces \cup {Ok}}

\* C22: every unit the framer hands to the router is exactly one unit of the
\* stream: a line ending in a colon with the lines up to the first blank
\* line, or one bare line; a block with no body lines does not take the unit
\* after it with it.
C22_OneUnitPerRead ==
    (last.msg # <<>> /\ last.stage # "read") => last.msg \in C22_ProtocolUnits

\* a body line whose value has a ': ' of its own
C23_ColonInValue(line) == line.k = "field" /\ Len(line.f) > 2

\* C23: a body line is split at its first ': ' alone: a slot-info block for
\* a slot of the slot map, one of whose values has a ': ' in it, is decoded
\* without raising and without the recovery path, and the value stored is
\* the whole remainder of the line.
C23_FirstSeparatorOnly ==
    (/\ LastWas("slot info") /\ last.stage # "read"
     /\ ValueOf(LastBody, "slot id") \in DOMAIN dev.slots
     /\ \E i \in 1..Len(LastBody) : C23_ColonInValue(LastBody[i])) =>
        /\ ~last.err /\ pc = "read"
        /\ dev.slots[ValueOf(LastBody, "slot id")].volume_name # None

\* the last read handed the router a format-ready block of the success range
C24_Ready == LastWas("format ready") /\ last.msg[1].code <= 299

C24_Confirms(cmds) ==
    {i \in 1..Len(cmds) : cmds[i][1] = "format: confirm: "}

\* C24: format() writes 'format: prepare: exFAT' and nothing else; a
\* format-ready block of the success range makes its handler write, within
\* the read of that block, exactly one 'format: confirm: <token>' with the
\* token of the block; and no confirm is written in any other step.
C24_TwoPhaseFormat ==
    [][/\ (call' # call /\ call'.op = "format") =>
             /\ call'.out = IF call'.raised THEN <<>> ELSE <<(<<"format: prepare: exFAT">>)>>
             /\ linkUp => ~call'.raised
             /\ UNCHANGED readerVars
       /\ (ReadStep /\ C24_Ready' /\ ~last'.err) =>
             out' = <<(<<"format: confirm: ", LastBody'[1].f[1]>>)>>
       /\ C24_Confirms(out') # {} => (ReadStep /\ C24_Ready' /\ ~last'.err) \/ out' = out
      ]_vars

C24_Witness ==
    /\ C24_Ready /\ ~last.err /\ pc = "read"
    /\ LastBody = <<Fld(<<"d4e5f6">>)>>
    /\ out = <<(<<"format: confirm: ", "d4e5f6">>)>>
    /\ call.op = "format" /\ ~call.raised

\* the goto command of each move, up to its sign
C25_Goto ==
    [op \in {"move_between_clips", "move_within_clip", "move_within_timeline",
             "move_timecode"} |->
        CASE op = "move_between_clips" -> [fwd |-> "goto: clip id: +", back |-> "goto: clip id: -"]
          [] op = "move_within_clip" -> [fwd |-> "goto: clip: +", back |-> "goto: clip: -"]
          [] op = "move_within_timeline" ->
                [fwd |-> "goto: timeline: +", back |-> "goto: timeline: -"]
          [] op = "move_timecode" ->
                [fwd |-> "goto: timecode: +", back |-> "goto: timecode: -"]]

C25_Abs(n) == IF n < 0 THEN 0 - n ELSE n

\* C25: move_between_clips, move_within_clip and move_within_timeline, called
\* with any integer, write exactly one goto command: the sign '+' or '-' and
\* then the absolute value of the argument, '+' for an argument above 0 and
\* '-' for one below 0; move_timecode writes '+' and the duration, or '-' and
\* the duration when reverse is set.
C25_SignedMoves ==
    [][(call' # call /\ call'.op \in DOMAIN C25_Goto) =>
          /\ linkUp => ~call'.raised
          /\ call'.raised => call'.out = <<>>
          /\ UNCHANGED readerVars
          /\ ~call'.raised =>
                /\ Len(call'.out) = 1
                /\ Len(call'.out[1]) = 2
                /\ IF call'.op = "move_timecode"
                   THEN /\ call'.out[1][2] = call'.timecode
                        /\ call'.out[1][1] = IF call'.reverse THEN C25_Goto[call'.op].back
                                             ELSE C25_Goto[call'.op].fwd
                   ELSE /\ call'.out[1][2] = StrOf(C25_Abs(call'.count))
                        /\ call'.count > 0 => call'.out[1][1] = C25_Goto[call'.op].fwd
                        /\ call'.count < 0 => call'.out[1][1] = C25_Goto[call'.op].back
                        /\ call'.out[1][1] \in {C25_Goto[call'.op].fwd, C25_Goto[call'.op].back}
      ]_vars

C25_Witness ==
    /\ call.op = "move_between_clips" /\ call.count = 0 - 2
    /\ ~call.raised
    /\ call.out = <<(<<"goto: clip id: -", "2">>)>>

\* the addends of C26: a frame count, or a Timecode at the framerate of t
C26_Addend ==
    \/ arith.x.kind = "int"
    \/ arith.x.kind = "Timecode" /\ arith.x.t.framerate = arith.t.framerate

C26_FrameCount(x) == IF x.kind = "int" THEN x.n ELSE x.t.frame_count

\* C26: for a Timecode t at framerate r and an addend x, a frame count of 0
\* or more or a Timecode at r, t + x is a Timecode with 0 <= frames < r,
\* 0 <= seconds < 60 and 0 <= minutes < 60 whose frame count is the frame
\* count of t plus that of x.
C26_AdditiveNormalised ==
    (arith.phase = "added" /\ C26_Addend) =>
        /\ ~arith.res.err
        /\ 0 <= arith.res.frames /\ arith.res.frames < arith.t.framerate
        /\ 0 <= arith.res.seconds /\ arith.res.seconds < 60
        /\ 0 <= arith.res.minutes /\ arith.res.minutes < 60
        /\ arith.res.frame_count = arith.t.frame_count + C26_FrameCount(arith.x)

\* C27: the sum of a Timecode with its fields in range and another such
\* Timecode, or a frame count of 0 or more, is a Timecode: the addition
\* does not raise, also when the carries take the hours to 100 or more.
C27_AdditionClosed ==
    (arith.phase = "added" /\ arith.x.kind \in {"Timecode", "int"}) => ~arith.res.err

\* C28: a slot-info or disk-list block whose slot id is no key of the slot
\* map, or whose body has no 'slot id' line, changes no state field and does
\* not send the reader into its recovery path.
C28_UnknownSlotIgnored ==
    [][(/\ ReadStep
        /\ LastWas("slot info")' \/ LastWas("disk list")'
        /\ last'.stage # "read"
        /\ ValueOf(LastBody', "slot id") \notin DOMAIN dev.slots) =>
          /\ dev' = dev
          /\ ~last'.err /\ pc' = "read"
      ]_vars

\* a transport-info body with a line whose value int() cannot parse
C29_FailsToDecode(body) ==
    \E i \in 1..Len(body) :
        /\ Len(body[i].f) = 2
        /\ body[i].f[1] \in {"slot id", "clip id", "speed", "timeline"}
        /\ ~IsInt(body[i].f[2])

\* C29: a transport-info block whose body fails to decode at some line leaves
\* the state fields exactly as they were before the block, the fields of
\* the lines before the failing one included, and writes no command.
C29_AllOrNothing ==
    [][(/\ ReadStep /\ linkUp
        /\ LastWas("transport info")'
        /\ C29_FailsToDecode(LastBody')) =>
          /\ last'.err
          /\ dev' = dev
          /\ out' = <<>>
      ]_vars

\* every clip line of the body is a whole entry
C30_WholeEntries(body) ==
    \A i \in 1..Len(body) :
        /\ Len(body[i].f) = 2
        /\ body[i].f[1] # "clip count" => body[i].f[2] \in DOMAIN TimelineEntry

\* C30: after a transport-info block with a video format of the device's
\* list, 'NTSC' and 'PAL' included, has been processed, framerate is an
\* integer above 0; and a clips-info block read after such a block is applied
\* without raising.
C30_FrameratePositive ==
    /\ (/\ LastWas("transport info") /\ ~last.err
        /\ ValueOf(LastBody, "video format") \in DOMAIN FormatTokens) =>
          dev.framerate > 0
    /\ (/\ LastWas("clips info") /\ last.stage # "read"
        /\ dev.video_format \in DOMAIN FormatTokens
        /\ C30_WholeEntries(LastBody)) =>
          ~last.err /\ pc = "read"

\* the commands of an absolute clip navigation
C31_Absolute ==
    {<<"goto: clip id: start">>, <<"goto: clip id: end">>}
        \cup {<<"goto: clip id: ", StrOf(k)>> : k \in 1..MaxCount}

\* C31: go_to_clip, called with any integer on a socket that takes the
\* write, writes exactly one command, and it is 'goto: clip id: start',
\* 'goto: clip id: end' or 'goto: clip id: <k>' with k a clip index above 0
\* and no sign before it.
C31_AbsoluteClip ==
    [][(call' # call /\ call'.op = "go_to_clip" /\ ~call'.raised) =>
          /\ Len(call'.out) = 1
          /\ call'.out[1] \in C31_Absolute
      ]_vars

====
